---- MODULE Spec2Model ----
(***************************************************************************)
(* Model of the worker pool of readability-server (worker-pool.js):        *)
(* SimpleWorker (one worker thread, one PendingCall slot, one timer) and   *)
(* WorkerPool (a free list, a waiter list, send/acquire/release), with the *)
(* worker-side handler installed by WorkerPool.implementWorker.            *)
(*                                                                         *)
(* The main thread is single-threaded: a macrotask (a message event, a     *)
(* timer) runs only when the microtask queue is empty; the continuations   *)
(* of the awaits in WorkerPool.send are microtasks and run in FIFO order.  *)
(* Worker threads run in parallel with the main thread.                    *)
(***************************************************************************)
EXTENDS Integers, Sequences, FiniteSets, TLC

\* ---------------------------------------------------------------- bounds
MaxPool == 2
MaxCallers == 3
MaxTerminate == 1

Units == 1..MaxPool
Callers == 1..MaxCallers

\* ------------------------------------------------------------- constants
NoCall == 0                  \* this._promise = null
Undefined == "<undefined>"   \* a property the message does not carry
NoValue == 0                 \* message.value of a message without a value

\* What a task's function does inside the worker, and the options of the call.
\*   value      : returns a value (here the number of the call, so that every
\*                task has its own value)
\*   throw      : throws an Error whose message is msg
\*   hang       : never returns
\*   unclonable : an argument cannot be cloned, postMessage throws
Kinds == {"value", "throw", "hang", "unclonable", "badvalue"}
Messages == {"boom", ""}
Tasks ==
  [kind : {"value", "hang", "unclonable"}, msg : {"boom"}, timeout : BOOLEAN]
    \cup [kind : {"throw"}, msg : Messages, timeout : BOOLEAN]
\* What a runtime can be given: also a task whose function returns a value that
\* postMessage cannot clone. To the pool such a task is one more task whose reply
\* is an error, so only the runtime's own specification draws it.
WorkerTasks ==
  [kind : {"value", "hang", "badvalue"}, msg : {"boom"}, timeout : {FALSE}]
    \cup [kind : {"throw"}, msg : Messages, timeout : {FALSE}]
NoTask == [kind |-> "value", msg |-> "boom", timeout |-> FALSE]

Pending == [state |-> "pending", value |-> NoValue, error |-> Undefined]

VARIABLES
  size,        \* the size the pool was constructed with
  free,        \* WorkerPool._free: sequence of units
  waiting,     \* WorkerPool._waiting: sequence of callers suspended in acquire()
  promise,     \* SimpleWorker._promise per unit: the caller whose PendingCall it holds
  timer,       \* SimpleWorker._timer per unit: the call the latest timer was armed for
  armed,       \* per unit: the calls whose setTimeout timer is still pending
  worker,      \* SimpleWorker._worker per unit: number of the backing runtime
  inbox,       \* per unit: tasks posted to the current runtime, not yet executed
  port,        \* per unit: messages posted by its runtimes, not yet delivered
  pc,          \* per caller: where its WorkerPool.send call is
  unitOf,      \* per caller: the local variable `worker` of WorkerPool.send
  task,        \* per caller: what was sent
  outcome,     \* per caller: state of the promise returned by SimpleWorker.send
  calls,       \* per caller: times resolve or reject of its PendingCall was invoked
  released,    \* per caller: times its send called release()
  microtasks,  \* continuations ready to run, in order
  terminations, \* the causes given to the explicit terminate() calls so far
  warnings,    \* number of 'no registered handler' warnings logged
  teardown     \* per unit, per replaced runtime: how its worker.terminate() ended

vars == <<size, free, waiting, promise, timer, armed, worker, inbox, port,
          pc, unitOf, task, outcome, calls, released, microtasks, terminations,
          warnings, teardown>>

poolVars == <<size, free, waiting>>
unitVars == <<promise, timer, armed, worker, inbox, port>>

\* ---------------------------------------------------------------- helpers
Range(s) == {s[i] : i \in 1..Len(s)}
Front(s) == SubSeq(s, 1, Len(s) - 1)
Last(s) == s[Len(s)]
RemoveAt(s, i) == SubSeq(s, 1, i - 1) \o SubSeq(s, i + 1, Len(s))

\* JavaScript truthiness of message.error
Truthy(e) == e \notin {Undefined, ""}

\* WorkerPool.constructor: size units pushed on the free list.
NewPool(n) == [i \in 1..n |-> i]

Init ==
  /\ size \in 1..MaxPool
  /\ free = NewPool(size)
  /\ waiting = <<>>
  /\ promise = [u \in Units |-> NoCall]
  /\ timer = [u \in Units |-> NoCall]
  /\ armed = [u \in Units |-> {}]
  /\ worker = [u \in Units |-> 1]
  /\ inbox = [u \in Units |-> <<>>]
  /\ port = [u \in Units |-> <<>>]
  /\ pc = [c \in Callers |-> "idle"]
  /\ unitOf = [c \in Callers |-> 0]
  /\ task = [c \in Callers |-> NoTask]
  /\ outcome = [c \in Callers |-> Pending]
  /\ calls = [c \in Callers |-> 0]
  /\ released = [c \in Callers |-> 0]
  /\ microtasks = <<>>
  /\ terminations = <<>>
  /\ warnings = 0
  /\ teardown = [u \in Units |-> <<>>]

\* ------------------------------------------------------- worker thread side
\* WorkerPool.implementWorker: the reply the handler posts for message {id, args}.
\* A returned value gives {id, value}; a thrown error gives
\* {id, error: error.message, stack: error.stack}. postMessage({id, value}) is
\* inside the try block: when the value cannot be cloned it throws, nothing is
\* posted by it, and the catch block posts the clone error.
WorkerReply(c, gen) ==
  IF task[c].kind = "throw"
    THEN [id |-> c, gen |-> gen, error |-> task[c].msg, stack |-> "trace",
          value |-> NoValue]
    ELSE IF task[c].kind = "badvalue"
      THEN [id |-> c, gen |-> gen, error |-> "DataCloneError", stack |-> "trace",
            value |-> NoValue]
      ELSE [id |-> c, gen |-> gen, error |-> Undefined, stack |-> Undefined,
            value |-> c]

\* Variant of Posted with the error reply posted in a finally block: a returned
\* value is followed by an error reply.
PostedAlsoError(c, gen) ==
  IF task[c].kind = "value"
    THEN <<WorkerReply(c, gen),
           [id |-> c, gen |-> gen, error |-> "boom", stack |-> "trace",
            value |-> NoValue]>>
    ELSE <<WorkerReply(c, gen)>>

\* The messages the handler posts for one task message, in order.
Posted(c, gen) == <<WorkerReply(c, gen)>>

\* The runtime of unit u takes the next posted task, runs the function and posts
\* the reply. A function that never returns leaves the runtime stuck on it.
RuntimeReply(u) ==
  /\ inbox[u] # <<>>
  /\ task[Head(inbox[u])].kind # "hang"
  /\ inbox' = [inbox EXCEPT ![u] = Tail(@)]
  /\ port' = [port EXCEPT ![u] = @ \o Posted(Head(inbox[u]), worker[u])]
  /\ UNCHANGED <<poolVars, promise, timer, armed, worker, pc, unitOf, task,
                 outcome, calls, released, microtasks, terminations, warnings,
                 teardown>>

\* ------------------------------------------------------------ SimpleWorker
\* promise.resolve(v) / promise.reject(e) on caller c's PendingCall. A promise
\* keeps its first settlement; the await in WorkerPool.send then continues in a
\* microtask.
SettleCall(c, result) ==
  /\ calls' = [calls EXCEPT ![c] = @ + 1]
  /\ IF outcome[c].state = "pending"
       THEN /\ outcome' = [outcome EXCEPT ![c] = result]
            /\ pc' = [pc EXCEPT ![c] = "settled"]
            /\ microtasks' = Append(microtasks, c)
       ELSE UNCHANGED <<outcome, pc, microtasks>>

Resolved(v) == [state |-> "resolved", value |-> v, error |-> Undefined]
Rejected(e) == [state |-> "rejected", value |-> NoValue, error |-> e]

\* Variant of HandleMessage that, with no PendingCall registered, settles the
\* call the message's id names instead of discarding the message.
HandleMessageById(u, message, a) ==
  IF promise[u] # NoCall
    THEN /\ armed' = [a EXCEPT ![u] = @ \ {timer[u]}]
         /\ promise' = [promise EXCEPT ![u] = NoCall]
         /\ warnings' = warnings
         /\ IF Truthy(message.error)
              THEN SettleCall(promise[u], Rejected(message.error))
              ELSE SettleCall(promise[u], Resolved(message.value))
    ELSE /\ armed' = a
         /\ warnings' = warnings + 1
         /\ promise' = promise
         /\ IF message.id # NoCall
              THEN SettleCall(message.id, Resolved(message.value))
              ELSE UNCHANGED <<outcome, calls, pc, microtasks>>

\* Variant of HandleMessage that leaves this._promise set after settling it.
HandleMessageKeep(u, message, a) ==
  IF promise[u] # NoCall
    THEN /\ armed' = [a EXCEPT ![u] = @ \ {timer[u]}]
         /\ promise' = promise
         /\ warnings' = warnings
         /\ IF Truthy(message.error)
              THEN SettleCall(promise[u], Rejected(message.error))
              ELSE SettleCall(promise[u], Resolved(message.value))
    ELSE /\ armed' = a
         /\ warnings' = warnings + 1
         /\ UNCHANGED <<promise, outcome, calls, pc, microtasks>>

\* Variant of HandleMessage without clearTimeout(this._timer).
HandleMessageNoClear(u, message, a) ==
  IF promise[u] # NoCall
    THEN /\ armed' = a
         /\ promise' = [promise EXCEPT ![u] = NoCall]
         /\ warnings' = warnings
         /\ IF Truthy(message.error)
              THEN SettleCall(promise[u], Rejected(message.error))
              ELSE SettleCall(promise[u], Resolved(message.value))
    ELSE /\ armed' = a
         /\ warnings' = warnings + 1
         /\ UNCHANGED <<promise, outcome, calls, pc, microtasks>>

\* SimpleWorker._handleMessage(message) on unit u; a is the set of pending
\* timers of every unit when the handler starts.
HandleMessage(u, message, a) ==
  IF promise[u] # NoCall
    THEN /\ armed' = [a EXCEPT ![u] = @ \ {timer[u]}]     \* clearTimeout(this._timer)
         /\ promise' = [promise EXCEPT ![u] = NoCall]
         /\ warnings' = warnings
         /\ IF Truthy(message.error)
              THEN SettleCall(promise[u], Rejected(message.error))
              ELSE SettleCall(promise[u], Resolved(message.value))
    ELSE /\ armed' = a
         /\ warnings' = warnings + 1                        \* console.warn
         /\ UNCHANGED <<promise, outcome, calls, pc, microtasks>>

\* Variant of TerminateUnit that replaces the runtime without failing the
\* outstanding PendingCall.
TerminateUnitSilent(u, cause, a) ==
  /\ teardown' = [teardown EXCEPT ![u] = Append(@, "pending")]
  /\ worker' = [worker EXCEPT ![u] = @ + 1]
  /\ inbox' = [inbox EXCEPT ![u] = <<>>]
  /\ armed' = a
  /\ UNCHANGED <<promise, outcome, calls, pc, microtasks, warnings>>

\* Variant of TerminateUnit for a pool whose units share one runtime: every
\* unit's runtime is replaced.
TerminateUnitAll(u, cause, a) ==
  /\ teardown' = [teardown EXCEPT ![u] = Append(@, "pending")]
  /\ worker' = [v \in Units |-> worker[v] + 1]
  /\ inbox' = [v \in Units |-> <<>>]
  /\ IF promise[u] # NoCall
       THEN HandleMessage(u, [id |-> NoCall, gen |-> worker[u],
                              error |-> IF Truthy(cause) THEN cause ELSE "TERMINATED",
                              stack |-> Undefined, value |-> NoValue], a)
       ELSE /\ armed' = a
            /\ UNCHANGED <<promise, outcome, calls, pc, microtasks, warnings>>

\* SimpleWorker.terminate(cause) on unit u: the runtime is told to stop (its
\* teardown is pending from here on), a new one replaces it at once, and an
\* outstanding PendingCall is failed. Messages the old runtime has already
\* posted stay in flight to this unit's handler.
TerminateUnit(u, cause, a) ==
  /\ teardown' = [teardown EXCEPT ![u] = Append(@, "pending")]
  /\ worker' = [worker EXCEPT ![u] = @ + 1]
  /\ inbox' = [inbox EXCEPT ![u] = <<>>]
  /\ IF promise[u] # NoCall
       THEN HandleMessage(u, [id |-> NoCall, gen |-> worker[u],
                              error |-> IF Truthy(cause) THEN cause ELSE "TERMINATED",
                              stack |-> Undefined, value |-> NoValue], a)
       ELSE /\ armed' = a
            /\ UNCHANGED <<promise, outcome, calls, pc, microtasks, warnings>>

\* Variant of WorkerSend that arms the timer whether or not a timeout is given.
WorkerSendAlwaysArms(c, u) ==
  /\ promise' = [promise EXCEPT ![u] = c]
  /\ IF task[c].kind = "unclonable"
       THEN /\ outcome' = [outcome EXCEPT ![c] = Rejected("DataCloneError")]
            /\ pc' = [pc EXCEPT ![c] = "settled"]
            /\ microtasks' = Append(Tail(microtasks), c)
            /\ UNCHANGED <<inbox, timer, armed>>
       ELSE /\ inbox' = [inbox EXCEPT ![u] = Append(@, c)]
            /\ pc' = [pc EXCEPT ![c] = "inflight"]
            /\ microtasks' = Tail(microtasks)
            /\ outcome' = outcome
            /\ timer' = [timer EXCEPT ![u] = c]
            /\ armed' = [armed EXCEPT ![u] = @ \cup {c}]

\* SimpleWorker.send(options, ...args) called for caller c on unit u.
\* postMessage throws when an argument cannot be cloned: the promise is then
\* rejected by the throw, after this._promise was set and before the timer.
WorkerSend(c, u) ==
  /\ promise' = [promise EXCEPT ![u] = c]
  /\ IF task[c].kind = "unclonable"
       THEN /\ outcome' = [outcome EXCEPT ![c] = Rejected("DataCloneError")]
            /\ pc' = [pc EXCEPT ![c] = "settled"]
            /\ microtasks' = Append(Tail(microtasks), c)
            /\ UNCHANGED <<inbox, timer, armed>>
       ELSE /\ inbox' = [inbox EXCEPT ![u] = Append(@, c)]
            /\ pc' = [pc EXCEPT ![c] = "inflight"]
            /\ microtasks' = Tail(microtasks)
            /\ outcome' = outcome
            /\ IF task[c].timeout
                 THEN /\ timer' = [timer EXCEPT ![u] = c]
                      /\ armed' = [armed EXCEPT ![u] = @ \cup {c}]
                 ELSE UNCHANGED <<timer, armed>>

\* -------------------------------------------------------------- WorkerPool
\* Variant of Acquire that reads the last free unit without popping it.
AcquirePeek(c) ==
  IF free # <<>>
    THEN /\ free' = free
         /\ unitOf' = [unitOf EXCEPT ![c] = Last(free)]
         /\ pc' = [pc EXCEPT ![c] = "acquired"]
         /\ microtasks' = Append(microtasks, c)
         /\ waiting' = waiting
    ELSE /\ waiting' = Append(waiting, c)
         /\ pc' = [pc EXCEPT ![c] = "waiting"]
         /\ UNCHANGED <<free, unitOf, microtasks>>

\* WorkerPool.acquire() called by caller c: a free unit is popped and the
\* promise resolved with it, or the caller's resolver is pushed on _waiting.
Acquire(c) ==
  IF free # <<>>
    THEN /\ free' = Front(free)
         /\ unitOf' = [unitOf EXCEPT ![c] = Last(free)]
         /\ pc' = [pc EXCEPT ![c] = "acquired"]
         /\ microtasks' = Append(microtasks, c)
         /\ waiting' = waiting
    ELSE /\ waiting' = Append(waiting, c)
         /\ pc' = [pc EXCEPT ![c] = "waiting"]
         /\ UNCHANGED <<free, unitOf, microtasks>>

\* Variant of Release that hands the unit to the first waiter and also pushes
\* it on _free.
ReleaseAlsoFrees(c, u) ==
  /\ free' = Append(free, u)
  /\ IF waiting # <<>>
       THEN /\ waiting' = Tail(waiting)
            /\ unitOf' = [unitOf EXCEPT ![Head(waiting)] = u]
            /\ pc' = [pc EXCEPT ![c] = "done", ![Head(waiting)] = "acquired"]
            /\ microtasks' = Append(Tail(microtasks), Head(waiting))
       ELSE /\ pc' = [pc EXCEPT ![c] = "done"]
            /\ microtasks' = Tail(microtasks)
            /\ UNCHANGED <<waiting, unitOf>>

\* Variant of Release that always pushes the unit on _free and wakes nobody.
ReleaseNoWake(c, u) ==
  /\ free' = Append(free, u)
  /\ pc' = [pc EXCEPT ![c] = "done"]
  /\ microtasks' = Tail(microtasks)
  /\ UNCHANGED <<waiting, unitOf>>

\* Variant of Release that takes the last waiter (pop) instead of the first (shift).
ReleaseLifo(c, u) ==
  IF waiting # <<>>
    THEN /\ waiting' = Front(waiting)
         /\ unitOf' = [unitOf EXCEPT ![Last(waiting)] = u]
         /\ pc' = [pc EXCEPT ![c] = "done", ![Last(waiting)] = "acquired"]
         /\ microtasks' = Append(Tail(microtasks), Last(waiting))
         /\ free' = free
    ELSE /\ free' = Append(free, u)
         /\ pc' = [pc EXCEPT ![c] = "done"]
         /\ microtasks' = Tail(microtasks)
         /\ UNCHANGED <<waiting, unitOf>>

\* WorkerPool.release(worker) called at the end of caller c's send: the first
\* waiter is shifted off _waiting and resolved with the unit, or the unit is
\* pushed on _free.
Release(c, u) ==
  IF waiting # <<>>
    THEN /\ waiting' = Tail(waiting)
         /\ unitOf' = [unitOf EXCEPT ![Head(waiting)] = u]
         /\ pc' = [pc EXCEPT ![c] = "done", ![Head(waiting)] = "acquired"]
         /\ microtasks' = Append(Tail(microtasks), Head(waiting))
         /\ free' = free
    ELSE /\ free' = Append(free, u)
         /\ pc' = [pc EXCEPT ![c] = "done"]
         /\ microtasks' = Tail(microtasks)
         /\ UNCHANGED <<waiting, unitOf>>

\* ------------------------------------------------------------------ actions
\* A caller invokes pool.send(options, ...args); callers are numbered in the
\* order of their calls. The body runs up to `await this.acquire()`.
Call(c, t) ==
  /\ pc[c] = "idle"
  /\ \A d \in Callers : d < c => pc[d] # "idle"
  /\ task' = [task EXCEPT ![c] = t]
  /\ Acquire(c)
  /\ UNCHANGED <<size, unitVars, outcome, calls, released, terminations,
                 warnings, teardown>>

\* Microtask: send continues after `await this.acquire()` with worker.send.
Submit(c) ==
  /\ microtasks # <<>> /\ Head(microtasks) = c
  /\ pc[c] = "acquired"
  /\ WorkerSend(c, unitOf[c])
  /\ UNCHANGED <<poolVars, worker, port, unitOf, task, calls, released,
                 terminations, warnings, teardown>>

\* Variant of Finally without the finally block: release() follows the await and
\* is skipped when the await throws.
FinallyOnSuccess(c) ==
  /\ microtasks # <<>> /\ Head(microtasks) = c
  /\ pc[c] = "settled"
  /\ IF outcome[c].state = "resolved"
       THEN /\ released' = [released EXCEPT ![c] = @ + 1]
            /\ Release(c, unitOf[c])
       ELSE /\ pc' = [pc EXCEPT ![c] = "done"]
            /\ microtasks' = Tail(microtasks)
            /\ UNCHANGED <<free, waiting, unitOf, released>>
  /\ UNCHANGED <<size, unitVars, task, outcome, calls, terminations, warnings,
                 teardown>>

\* Microtask: send continues after `await worker.send(...)` in its finally block.
Finally(c) ==
  /\ microtasks # <<>> /\ Head(microtasks) = c
  /\ pc[c] = "settled"
  /\ released' = [released EXCEPT ![c] = @ + 1]
  /\ Release(c, unitOf[c])
  /\ UNCHANGED <<size, unitVars, task, outcome, calls, terminations, warnings,
                 teardown>>

\* Macrotask: a message event of unit u. Messages of one runtime arrive in the
\* order posted; messages of different runtimes of the unit in any order.
Deliver(u, i) ==
  /\ microtasks = <<>>
  /\ i \in 1..Len(port[u])
  /\ \A j \in 1..(i - 1) : port[u][j].gen # port[u][i].gen
  /\ port' = [port EXCEPT ![u] = RemoveAt(@, i)]
  /\ HandleMessage(u, port[u][i], armed)
  /\ UNCHANGED <<poolVars, timer, worker, inbox, unitOf, task, released,
                 terminations, teardown>>

\* Macrotask: the timer armed for call c on unit u expires: _handleTimeout.
Timeout(u, c) ==
  /\ microtasks = <<>>
  /\ c \in armed[u]
  /\ TerminateUnit(u, "TIMEDOUT", [armed EXCEPT ![u] = @ \ {c}])
  /\ UNCHANGED <<poolVars, timer, port, unitOf, task, released, terminations>>

\* terminate(cause) called on unit u from outside the pool.
Causes == {Undefined, "", "shutdown"}
Terminate(u, cause) ==
  /\ Len(terminations) < MaxTerminate
  /\ terminations' = Append(terminations, cause)
  /\ TerminateUnit(u, cause, armed)
  /\ UNCHANGED <<poolVars, timer, port, unitOf, task, released>>

\* The pool as readability-server runs it: nothing outside the pool calls
\* terminate(), a unit is restarted by its timer only.
Next ==
  \/ \E c \in Callers, t \in Tasks : Call(c, t)
  \/ \E c \in Callers : Submit(c)
  \/ \E c \in Callers : Finally(c)
  \/ \E u \in 1..size : RuntimeReply(u)
  \/ \E u \in 1..size, i \in 1..MaxCallers : Deliver(u, i)
  \/ \E u \in 1..size, c \in Callers : Timeout(u, c)

Spec == Init /\ [][Next]_vars

\* The same with terminate(cause) also called from outside, at any moment.
NextTerminate ==
  \/ Next
  \/ \E u \in 1..size, cause \in Causes : Terminate(u, cause)

SpecTerminate == Init /\ [][NextTerminate]_vars

\* Variant of TeardownSettles whose catch handler fails the unit's outstanding
\* PendingCall instead of only logging.
TeardownSettlesRejects(u, g, ok) ==
  /\ microtasks = <<>>
  /\ g \in 1..Len(teardown[u])
  /\ teardown[u][g] = "pending"
  /\ ok => \A i \in 1..Len(port[u]) : port[u][i].gen # g
  /\ teardown' = [teardown EXCEPT ![u][g] = IF ok THEN "terminated" ELSE "failed"]
  /\ IF ok
       THEN UNCHANGED <<promise, armed, outcome, calls, pc, microtasks, warnings>>
       ELSE HandleMessage(u, [id |-> NoCall, gen |-> g, error |-> "Failed to terminate",
                              stack |-> Undefined, value |-> NoValue], armed)
  /\ UNCHANGED <<poolVars, timer, worker, inbox, port, unitOf, task, released,
                 terminations>>

\* Macrotask: the promise of this._worker.terminate() for runtime g of unit u
\* settles. Its then/catch/finally handlers only write to the console. A runtime
\* that exits has delivered every message it posted before its exit is reported.
TeardownSettles(u, g, ok) ==
  /\ microtasks = <<>>
  /\ g \in 1..Len(teardown[u])
  /\ teardown[u][g] = "pending"
  /\ ok => \A i \in 1..Len(port[u]) : port[u][i].gen # g
  /\ teardown' = [teardown EXCEPT ![u][g] = IF ok THEN "terminated" ELSE "failed"]
  /\ UNCHANGED <<poolVars, unitVars, pc, unitOf, task, outcome, calls, released,
                 microtasks, terminations, warnings>>

\* The pool together with the settling of the teardowns its restarts started.
NextTeardown ==
  \/ Next
  \/ \E u \in 1..size, g \in 1..MaxCallers, ok \in BOOLEAN : TeardownSettles(u, g, ok)

SpecTeardown == Init /\ [][NextTeardown]_vars

\* One runtime on its own: it has received task messages, one per caller id, and
\* handles them one after another.
Received ==
  {q \in UNION {[1..n -> Callers] : n \in 0..MaxCallers} :
     \A i, j \in 1..Len(q) : i # j => q[i] # q[j]}

InitWorker ==
  /\ size = 1
  /\ free = NewPool(size)
  /\ waiting = <<>>
  /\ promise = [u \in Units |-> NoCall]
  /\ timer = [u \in Units |-> NoCall]
  /\ armed = [u \in Units |-> {}]
  /\ worker = [u \in Units |-> 1]
  /\ inbox \in {[u \in Units |-> IF u = 1 THEN q ELSE <<>>] : q \in Received}
  /\ port = [u \in Units |-> <<>>]
  /\ pc = [c \in Callers |-> "idle"]
  /\ unitOf = [c \in Callers |-> 0]
  /\ task \in [Callers -> WorkerTasks]
  /\ outcome = [c \in Callers |-> Pending]
  /\ calls = [c \in Callers |-> 0]
  /\ released = [c \in Callers |-> 0]
  /\ microtasks = <<>>
  /\ terminations = <<>>
  /\ warnings = 0
  /\ teardown = [u \in Units |-> <<>>]

NextWorker == \E u \in 1..size : RuntimeReply(u)

SpecWorker == InitWorker /\ [][NextWorker]_vars

\* The scheduling the runtime guarantees: the microtask queue is always drained.
Microtask == \E c \in Callers : Submit(c) \/ Finally(c)

LiveSpec == Spec /\ WF_vars(Microtask)

TypeOK ==
  /\ size \in 1..MaxPool
  /\ Range(free) \subseteq 1..size
  /\ Range(waiting) \subseteq Callers
  /\ promise \in [Units -> Callers \cup {NoCall}]
  /\ timer \in [Units -> Callers \cup {NoCall}]
  /\ armed \in [Units -> SUBSET Callers]
  /\ pc \in [Callers -> {"idle", "waiting", "acquired", "inflight", "settled", "done"}]
  /\ unitOf \in [Callers -> 0..MaxPool]
  /\ task \in [Callers -> Tasks \cup WorkerTasks]
  /\ \A c \in Callers : outcome[c].state \in {"pending", "resolved", "rejected"}
  /\ Range(microtasks) \subseteq Callers
  /\ \A u \in Units : /\ Len(teardown[u]) = worker[u] - 1
                      /\ Range(teardown[u]) \subseteq {"pending", "terminated", "failed"}

\* ================================================================== claims
Holds(c) == pc[c] \in {"acquired", "inflight", "settled"}
InFlight == {c \in Callers : pc[c] = "inflight"}
HasPendingCall(u) == promise[u] # NoCall

\* C1: for every pool size, at most `size` tasks are in flight (submitted to a
\* unit by SimpleWorker.send and not yet settled) in every reachable state.
C1_AtMostSizeInFlight == Cardinality(InFlight) <= size

\* C1 witness: a pool of two units with both busy and a caller waiting.
C1_Witness ==
  /\ size > 1
  /\ Cardinality(InFlight) = size
  /\ waiting # <<>>

\* C2: a unit is never held by two send calls at once, never both on the free
\* list and held, and SimpleWorker.send is never invoked on a unit whose
\* PendingCall slot is still occupied.
C2_NoDoubleSubmission ==
  /\ \A c, d \in Callers : (c # d /\ Holds(c) /\ Holds(d)) => unitOf[c] # unitOf[d]
  /\ \A c \in Callers : Holds(c) => unitOf[c] \notin Range(free)
  /\ \A c \in Callers :
       (pc[c] = "acquired" /\ microtasks # <<>> /\ Head(microtasks) = c)
         => ~HasPendingCall(unitOf[c])

\* The first two parts of C2 alone: exclusive holders, free and held disjoint.
C2_ExclusiveHolders ==
  /\ \A c, d \in Callers : (c # d /\ Holds(c) /\ Holds(d)) => unitOf[c] # unitOf[d]
  /\ \A c \in Callers : Holds(c) => unitOf[c] \notin Range(free)

\* C3: waiters are served in the order of their acquire() calls: whenever a
\* waiting caller is handed a unit, no caller that called acquire() before it
\* is still waiting (callers are numbered in call order).
C3_WaitersServedFifo ==
  [][\A c \in Callers :
       (pc[c] = "waiting" /\ pc'[c] # "waiting")
         => /\ pc'[c] = "acquired"
            /\ \A d \in Callers : pc[d] = "waiting" => c <= d]_vars

\* C3 witness: callers 2 and 3 both waited on a pool of one unit; the unit was
\* released by caller 1 and handed to caller 2 while caller 3 still waits.
C3_Witness ==
  /\ size = 1
  /\ pc[1] = "done" /\ pc[2] = "acquired" /\ pc[3] = "waiting"

\* C4: every send that acquired a unit releases it exactly once on every exit
\* path: never twice, once when the call is over, and a settled call always
\* has its finally block queued.
C4_ReleasedExactlyOnce ==
  \A c \in Callers :
    /\ released[c] <= 1
    /\ (pc[c] = "done") <=> (released[c] = 1)
    /\ pc[c] = "settled" => c \in Range(microtasks)
    /\ pc[c] = "done" => unitOf[c] \in 1..size

\* C4 witness: three finished calls, one whose submission threw synchronously,
\* one whose unit was restarted by its timer and one resolved with a value or
\* rejected by an explicit terminate().
C4_Witness ==
  /\ \A c \in Callers : pc[c] = "done" /\ released[c] = 1
  /\ \E c \in Callers : outcome[c].error = "DataCloneError"
  /\ \E c \in Callers : outcome[c].error = "TIMEDOUT"
  /\ \E c \in Callers : outcome[c].error = "TERMINATED"

C6_TimeoutRejectsAndRecovers ==
  \A c \in Callers :
    (task[c].kind = "hang" /\ task[c].timeout /\ outcome[c].state # "pending")
      => /\ outcome[c] = Rejected("TIMEDOUT")
         /\ worker[unitOf[c]] > 1
         /\ \A d \in Callers :
              (d > c /\ unitOf[d] = unitOf[c] /\ task[d].kind = "value"
                 /\ ~task[d].timeout /\ outcome[d].state # "pending")
                => outcome[d] = Resolved(d)

\* C7: a task whose function throws is rejected with the thrown message,
\* whatever the message is, and its unit is released (calls without a timeout,
\* so that no timer competes with the reply).
C7_ThrownErrorRejects ==
  \A c \in Callers :
    (task[c].kind = "throw" /\ ~task[c].timeout /\ outcome[c].state # "pending")
      => /\ outcome[c] = Rejected(task[c].msg)
         /\ pc[c] = "done" => released[c] = 1

\* C8: no starvation: if every task submitted to a unit eventually settles (no
\* call stays in flight for ever), every send that was called eventually
\* acquires a unit, settles and ends.
C8_NoStarvation ==
  (\A c \in Callers : []<>(pc[c] # "inflight"))
    => (\A c \in Callers : (pc[c] # "idle") ~> (pc[c] = "done"))

\* C8 witness: a pool of two units and three calls; the third waited while the
\* first two were in flight and all three have ended.
C8_Witness ==
  /\ size = 2
  /\ \A c \in Callers : pc[c] = "done"
  /\ unitOf[3] \in {unitOf[1], unitOf[2]}
  /\ unitOf[1] # unitOf[2]

\* C9: a restart of a unit whose PendingCall slot is occupied invokes that
\* call's reject in the same step, with the given reason (the default
\* "TERMINATED" when the reason is null or empty, "TIMEDOUT" from the timer);
\* after any restart the slot is empty and no call is in flight on the unit.
RestartReason ==
  IF terminations' # terminations
    THEN IF Truthy(Last(terminations')) THEN Last(terminations') ELSE "TERMINATED"
    ELSE "TIMEDOUT"

C9_RestartRejectsPendingCall ==
  [][\A u \in Units :
       worker'[u] # worker[u]
         => /\ promise'[u] = NoCall
            /\ HasPendingCall(u)
                 => /\ calls'[promise[u]] = calls[promise[u]] + 1
                    /\ outcome[promise[u]].state = "pending"
                         => outcome'[promise[u]] = Rejected(RestartReason)
            /\ \A c \in Callers : unitOf[c] = u => pc'[c] # "inflight"]_vars

\* C9 witness: one call rejected by terminate("shutdown") and one by its timer.
C9_Witness ==
  /\ \E c \in Callers :
       outcome[c] = Rejected("shutdown") /\ promise[unitOf[c]] = NoCall
  /\ \E d \in Callers : outcome[d] = Rejected("TIMEDOUT")

\* C10: a message delivered to a unit whose PendingCall slot is empty is logged
\* and dropped: no call is settled and the unit's slot, timer and runtime and
\* the pool's free list and waiter list stay as they were.
C10_SpuriousMessageDiscarded ==
  [][\A u \in Units :
       (Len(port'[u]) < Len(port[u]) /\ ~HasPendingCall(u))
         => /\ warnings' = warnings + 1
            /\ UNCHANGED <<promise, timer, armed, worker, inbox, free, waiting,
                           outcome, calls, pc, unitOf, released, microtasks>>]_vars

\* C10 witness: the reply of a timed-out call was delivered after the call had
\* ended, and logged; every message has been delivered.
C10_Witness ==
  /\ warnings > 0
  /\ \A u \in Units : port[u] = <<>>
  /\ \A c \in Callers : pc[c] = "done"

\* C11: a reply settles only the call it was produced for: whenever a message
\* is delivered to a unit whose PendingCall slot is occupied, the message's id
\* is the id of the call in the slot.
C11_RepliesSettleOwnCall ==
  [][\A u \in Units :
       (Len(port'[u]) < Len(port[u]) /\ HasPendingCall(u))
         => \E i \in 1..Len(port[u]) :
              /\ port'[u] = RemoveAt(port[u], i)
              /\ port[u][i].id = promise[u]]_vars

\* C12: every unit on the free list is idle: its PendingCall slot is empty and
\* no timer is armed for it.
C12_FreeUnitsAreIdle ==
  \A u \in Range(free) : ~HasPendingCall(u) /\ armed[u] = {}

\* The timer part of C12 alone: no timer is armed for a unit on the free list.
C12_FreeUnitsHaveNoTimer ==
  \A u \in Range(free) : armed[u] = {}

\* C13: whenever a caller waits, no unit is free.
C13_WaitersOnlyWhenNoneFree ==
  waiting # <<>> => free = <<>>

\* C13 witness: a unit was released while two callers waited; one still waits
\* and no unit is free.
C13_Witness ==
  /\ \E c \in Callers : pc[c] = "done"
  /\ waiting # <<>>
  /\ free = <<>>
  /\ \E c \in Callers : pc[c] = "inflight" /\ released[1] = 1 /\ c > 1

\* C14: no barging: a unit released while callers wait is handed to the head
\* waiter and the free list is left alone, and no caller holds or has had a
\* unit while a caller that called acquire() before it still waits.
C14_NoBarging ==
  [][/\ \A c \in Callers :
          (released'[c] # released[c] /\ waiting # <<>>)
            => /\ free' = free
               /\ pc'[Head(waiting)] = "acquired"
               /\ unitOf'[Head(waiting)] = unitOf[c]
     /\ \A c, d \in Callers :
          (d < c /\ pc'[d] = "waiting") => pc'[c] \in {"idle", "waiting"}]_vars

\* C14 witness: on a pool of one unit caller 3 called while caller 2 was
\* waiting; caller 1 has released the unit, caller 2 is in flight on it and
\* caller 3 still waits.
C14_Witness ==
  /\ size = 1
  /\ released[1] = 1
  /\ pc[2] = "inflight" /\ unitOf[2] = unitOf[1]
  /\ pc[3] = "waiting"
  /\ free = <<>>

\* C15: a timer acts only on the task it was armed for: every pending timer
\* of a unit belongs to the call that is outstanding on the unit and still in
\* flight, so a timer of a call that a reply has settled never fires.
C15_TimerOnlyForCurrentTask ==
  \A u \in Units : \A c \in armed[u] :
    promise[u] = c /\ timer[u] = c /\ pc[c] = "inflight"

\* C15 witness: a call with a timeout was resolved by a reply and released its
\* unit, and a later call is in flight on the same unit, not restarted.
C15_Witness ==
  \E c, d \in Callers :
    /\ c < d
    /\ task[c].timeout /\ outcome[c].state = "resolved" /\ pc[c] = "done"
    /\ unitOf[d] = unitOf[c] /\ pc[d] = "inflight"
    /\ worker[unitOf[d]] = 1

\* The part of the unit-level state that belongs to unit u.
UnitState(u) == <<promise[u], timer[u], armed[u], worker[u], inbox[u], port[u],
                  teardown[u]>>

\* C16: units are isolated: a step that changes one unit's PendingCall, timer,
\* runtime or messages leaves those of every other unit as they were.
C16_UnitsIsolated ==
  [][\A u, v \in Units :
       (u # v /\ UnitState(u)' # UnitState(u)) => UnitState(v)' = UnitState(v)]_vars

\* C16 witness: in a pool of two units caller 1's task never ends and has no
\* timeout, caller 2 timed out on the other unit, which was restarted, released
\* and is now running caller 3's task, while caller 1's unit is untouched.
C16_Witness ==
  /\ size = 2
  /\ pc[1] = "inflight" /\ task[1].kind = "hang" /\ ~task[1].timeout
  /\ promise[unitOf[1]] = 1 /\ worker[unitOf[1]] = 1
  /\ outcome[2] = Rejected("TIMEDOUT") /\ pc[2] = "done"
  /\ unitOf[2] # unitOf[1] /\ worker[unitOf[2]] = 2
  /\ pc[3] = "inflight" /\ unitOf[3] = unitOf[2]

\* C17: the pool's units are fixed: each of the `size` units is either once on
\* the free list or held by exactly one send, and nothing else is on the list.
C17_UnitsConserved ==
  /\ Range(free) \subseteq 1..size
  /\ \A u \in 1..size :
       Cardinality({i \in 1..Len(free) : free[i] = u})
         + Cardinality({c \in Callers : Holds(c) /\ unitOf[c] = u}) = 1

\* C17 witness: a pool of two units after a restart, every send finished and
\* both units back on the free list.
C17_Witness ==
  /\ size = 2
  /\ \A c \in Callers : pc[c] = "done"
  /\ \E u \in 1..size : worker[u] > 1
  /\ Len(free) = 2

\* C18: a restart does not wait for the teardown: in the step that replaces the
\* runtime the new runtime is ready and empty, the old one's teardown is still
\* pending and the interrupted call is already settled; and the step in which
\* a teardown succeeds or fails changes nothing but the record of that teardown.
C18_RestartDoesNotWaitForTeardown ==
  [][\A u \in Units :
       /\ worker'[u] # worker[u]
            => /\ inbox'[u] = <<>>
               /\ Last(teardown'[u]) = "pending"
               /\ HasPendingCall(u) => outcome'[promise[u]].state = "rejected"
       /\ (worker'[u] = worker[u] /\ teardown'[u] # teardown[u])
            => UNCHANGED <<poolVars, unitVars, pc, unitOf, task, outcome, calls,
                           released, microtasks, terminations, warnings>>]_vars

\* C18 witness: caller 1 timed out, the teardown of the replaced runtime failed,
\* and a later call submitted to the new runtime while a teardown was pending
\* was resolved with its own value.
C18_Witness ==
  \E d \in Callers :
    /\ d > 1
    /\ outcome[1] = Rejected("TIMEDOUT")
    /\ unitOf[d] = unitOf[1]
    /\ teardown[unitOf[1]] = <<"failed">>
    /\ outcome[d] = Resolved(d)

\* implementation(...args) returned / threw for the task of caller c.
Returned(c) == task[c].kind \in {"value", "badvalue"}
Threw(c) == task[c].kind = "throw"
\* The shape of a reply: {id, error, stack} or {id, value}.
IsErrorReply(m) == m.error # Undefined /\ m.stack # Undefined
IsValueReply(m) == m.error = Undefined /\ m.stack = Undefined

\* C19 as stated: for every task message the runtime finishes, exactly one
\* reply is posted, it carries the task's id, and it is a value reply if the
\* function returned and an error reply if it threw.
C19_OneReplyValueIfReturned ==
  [][\A u \in Units :
       inbox'[u] # inbox[u]
         => LET c == Head(inbox[u]) IN
            /\ Len(port'[u]) = Len(port[u]) + 1
            /\ SubSeq(port'[u], 1, Len(port[u])) = port[u]
            /\ Last(port'[u]).id = c
            /\ Returned(c) => IsValueReply(Last(port'[u]))
            /\ Threw(c) => IsErrorReply(Last(port'[u]))]_vars

\* C19 amended: for every task message the runtime finishes, exactly one reply
\* is posted and it carries the task's id; it is a value reply with the value
\* if the function returned a value that can be cloned, and an error reply
\* (message and trace) if the function threw or its value cannot be cloned.
C19_OneReplyPerTask ==
  [][\A u \in Units :
       inbox'[u] # inbox[u]
         => LET c == Head(inbox[u]) IN
            /\ Len(port'[u]) = Len(port[u]) + 1
            /\ SubSeq(port'[u], 1, Len(port[u])) = port[u]
            /\ Last(port'[u]).id = c
            /\ task[c].kind = "value"
                 => IsValueReply(Last(port'[u])) /\ Last(port'[u]).value = c
            /\ task[c].kind = "badvalue" => IsErrorReply(Last(port'[u]))
            /\ Threw(c) => /\ IsErrorReply(Last(port'[u]))
                           /\ Last(port'[u]).error = task[c].msg]_vars

\* C19 witness: the runtime has handled three task messages, one whose function
\* returned a value, one whose value could not be cloned and one that threw,
\* and has posted three replies.
C19_Witness ==
  /\ Len(port[1]) = 3
  /\ inbox[1] = <<>>
  /\ {task[port[1][i].id].kind : i \in 1..3} = {"value", "badvalue", "throw"}

\* C20: a runtime is replaced only by the expiry of the timer armed for the
\* unit's current task or by an explicit terminate(); a submitted task has a
\* timer exactly when it was sent with a timeout; and a task sent without a
\* timeout has no timer and is never rejected as timed out.
C20_RestartOnlyByTimerOrTerminate ==
  [][/\ \A u \in Units :
          worker'[u] # worker[u]
            => \/ terminations' # terminations
               \/ /\ HasPendingCall(u)
                  /\ task[promise[u]].timeout
                  /\ promise[u] \in armed[u]
                  /\ promise[u] \notin armed'[u]
     /\ \A c \in Callers :
          /\ (pc[c] = "acquired" /\ pc'[c] = "inflight")
               => (c \in armed'[unitOf[c]] <=> task[c].timeout)
          /\ (pc'[c] # "idle" /\ ~task'[c].timeout)
               => /\ outcome'[c].error # "TIMEDOUT"
                  /\ \A u \in Units : c \notin armed'[u]]_vars

\* C20 witness: a unit was restarted by the timer of an earlier task and now
\* runs a task that never ends and was sent without a timeout: no timer is
\* armed for it.
C20_Witness ==
  \E c \in Callers :
    /\ pc[c] = "inflight" /\ task[c].kind = "hang" /\ ~task[c].timeout
    /\ armed[unitOf[c]] = {}
    /\ worker[unitOf[c]] = 2
    /\ terminations = <<>>

====
